---- MODULE Spec2Model ----
(***************************************************************************)
(* Chat session protocol of the healthcare-payer knowledge base front      *)
(* ends.  The repository ships two front ends over the same query service: *)
(*   - src/frontend/app.js                 (plain DOM page, ui = "app")    *)
(*   - src/frontend-react/src/components   (React page,     ui = "react")  *)
(* A page load runs exactly one of them; Init picks which.  Both keep a    *)
(* session id, a list of displayed chat elements and a set of chat         *)
(* requests that are still on the network.                                 *)
(***************************************************************************)
EXTENDS Integers, Sequences, FiniteSets, TLC

(***************************************************************************)
(* Bounds of the model.                                                    *)
(***************************************************************************)
MaxLen == 2          \* longest text typed into the input box
MaxQueries == 2      \* chat queries accepted in one run
MaxNow == 1          \* last value of the millisecond clock Date.now()
MaxClears == 1       \* presses of the clear button in one run
NumRnd == 2          \* distinct Math.random() suffixes
NumServerIds == 1    \* distinct session ids the query service issues itself
MaxSources == 2      \* longest source list rendered
MaxPolls == 3        \* refresh rounds after which the 30-second timer fires no more

VARIABLES
    ui,          \* which front end this page runs: "app" or "react"
    sessionId,   \* app.js: let sessionId;  React: const [sessionId] = useState(...)
    messages,    \* app.js: children of #chatMessages;  React: the messages state
    pending,     \* chat requests sent and not yet settled
    isPending,   \* React: chatMutation.isPending
    initPc,      \* app.js: where initializeApp() is suspended
    now,         \* Date.now()
    drawn,       \* the Math.random() suffixes drawn during the current millisecond
    nextQ,       \* number of chat queries accepted so far
    epoch,       \* number of clearChat() calls so far
    payerFilter,     \* app.js: value of the #payerFilter select;  React: the payerFilter prop
    ruleTypeFilter,  \* app.js: value of the #ruleTypeFilter select;  React: the ruleTypeFilter prop
    statsGrid,   \* app.js: what #statsGrid shows
    alertsList,  \* app.js: what #alertsList shows
    polls,       \* app.js: the /stats and /alerts fetches that are on the network
    issued,      \* app.js: number of refresh rounds issued so far
    console,     \* app.js: the messages written with console.error
    sourceList,  \* the sources of an answer, as the query service returned them
    cards,       \* the source entries shown under that answer, top to bottom
    ev           \* the handler that ran last, with its input and what it saw

filters == <<payerFilter, ruleTypeFilter>>

dashboard == <<statsGrid, alertsList, polls, issued, console>>

rendering == <<sourceList, cards>>

vars == <<ui, sessionId, messages, pending, isPending, initPc, now, drawn, nextQ, epoch,
          filters, dashboard, rendering, ev>>

(***************************************************************************)
(* Session ids.  All id values are records of one shape so that they can   *)
(* be compared: null and undefined and "" are the three falsy values the   *)
(* code can meet, "session" ids are made by generateSessionId, "server"    *)
(* ids are strings the query service returns.                              *)
(***************************************************************************)
Null == [kind |-> "null", t |-> 0, r |-> 0]
Undefined == [kind |-> "undefined", t |-> 0, r |-> 0]
EmptyString == [kind |-> "empty", t |-> 0, r |-> 0]
ServerId(n) == [kind |-> "server", t |-> n, r |-> 0]
ServerIds == {ServerId(n) : n \in 1..NumServerIds}
Rnd == 0..(NumRnd - 1)

\* 'session_' + Date.now() + '_' + Math.random().toString(36).substr(2, 9)
generateSessionId(t, r) == [kind |-> "session", t |-> t, r |-> r]

\* Math.random() is taken not to return the same nine-digit suffix twice within
\* one millisecond: the suffixes still free at this instant.
FreshRnd == Rnd \ drawn

\* JavaScript truthiness of a session id value: if (data.session_id)
Truthy(id) == id.kind \notin {"null", "undefined", "empty"}

(***************************************************************************)
(* Values of the filters and of the request fields made from them.  A      *)
(* value is a string, null or undefined; a field of the serialised body    *)
(* can also be absent.                                                     *)
(***************************************************************************)
JsString(v) == [kind |-> "string", v |-> v]
JsNull == [kind |-> "null", v |-> ""]
JsUndefined == [kind |-> "undefined", v |-> ""]
Absent == [kind |-> "absent", v |-> ""]

Falsy(x) == x.kind \in {"null", "undefined"} \/ (x.kind = "string" /\ x.v = "")

\* a || b that always yields its first operand
JsOr_firstOperand(a, b) == a

\* a || b
JsOr(a, b) == IF Falsy(a) THEN b ELSE a

\* JSON.stringify leaves out a key whose value is undefined
stringify(x) == IF x.kind = "undefined" THEN Absent ELSE x

\* the options of the two selects: "" is "All Payers" / "All Rule Types"
PayerNames == {"Aetna", "Cigna"}
RuleTypes == {"timely_filing"}

(***************************************************************************)
(* Text.  Typed text is a sequence of characters; the fixed texts of the   *)
(* program are one-element sequences holding the whole string.             *)
(***************************************************************************)
Chars == {" ", "a"}
Inputs == UNION {[1..n -> Chars] : n \in 0..MaxLen}
IsSpace(c) == c = " "

RECURSIVE trimStart(_)
trimStart(s) ==
    IF Len(s) = 0 THEN <<>>
    ELSE IF IsSpace(Head(s)) THEN trimStart(Tail(s)) ELSE s

RECURSIVE trimEnd(_)
trimEnd(s) ==
    IF Len(s) = 0 THEN <<>>
    ELSE IF IsSpace(s[Len(s)]) THEN trimEnd(SubSeq(s, 1, Len(s) - 1)) ELSE s

\* the query taken as typed: the call of trim() left out
trim_leftOut(s) == s

\* String.prototype.trim
trim(s) == trimEnd(trimStart(s))

Apology == <<"Sorry, I encountered an error. Please try again.">>
AnswerText == <<"Aetna requires claims within 90 days.">>
UndefinedText == <<"undefined">>
Examples == {
    <<"What's Aetna's timely filing rule?">>,
    <<"Tell me about prior authorization requirements">>,
    <<"What are United Healthcare's appeals processes?">>,
    <<"Compare timely filing rules across payers">> }

(***************************************************************************)
(* Sources returned with an answer.  A score is a number in thousandths    *)
(* (920 is 0.92) and an optional field is <<>> when absent and <<v>> when  *)
(* it holds v.  Scores that fall on a half percent (0.595) are left out:   *)
(* binary floating point decides on which side score * 100 falls.          *)
(***************************************************************************)
Scores == {-250, 0, 594, 596, 794, 796, 920, 1500}
OptScores == {<<>>} \cup {<<v>> : v \in Scores}
Sources == {[rule_id |-> 1, combined_score |-> c, similarity_score |-> s] :
               c \in OptScores, s \in OptScores}
SourceLists == UNION {[1..n -> Sources] : n \in 0..MaxSources}

SampleSources == <<[rule_id |-> 1, combined_score |-> <<920>>, similarity_score |-> <<>>]>>

\* x || y on two optional numbers: undefined and 0 are falsy
NumOr(x, y) == IF Len(x) = 1 /\ x[1] # 0 THEN x ELSE y

\* source.combined_score || source.similarity_score || 0
rawScore(source) == NumOr(NumOr(source.combined_score, source.similarity_score), <<0>>)[1]

\* Math.round(score * 100): the nearest integer, a half going up
MathRound(score) == (score + 5) \div 10

\* (score * 100).toFixed(0): the nearest integer, a half going away from zero
toFixed0(score) == IF score >= 0 THEN (score + 5) \div 10 ELSE -((5 - score) \div 10)

\* the badge colour of SourceCard with the bounds taken strictly
matchBand_strict(matchScore) ==
    IF matchScore > 80 THEN "green" ELSE IF matchScore > 60 THEN "yellow" ELSE "gray"

\* the badge colour of SourceCard (lines 35-40)
matchBand(matchScore) ==
    IF matchScore >= 80 THEN "green" ELSE IF matchScore >= 60 THEN "yellow" ELSE "gray"

\* app.js addMessage, the body of sources.forEach (lines 232-243)
sourceItem(source, index) ==
    [index |-> index, score |-> rawScore(source), pct |-> toFixed0(rawScore(source)),
     band |-> "none"]

sourceItems(srcs) == [i \in 1..Len(srcs) |-> sourceItem(srcs[i], i)]

\* SourceCard.tsx (lines 14-42)
SourceCard(source, index) ==
    [index |-> index, score |-> rawScore(source), pct |-> MathRound(rawScore(source)),
     band |-> matchBand(MathRound(rawScore(source)))]

\* MessageBubble.tsx: sources.map((source, index) => <SourceCard ... />)
SourceCards(srcs) == [i \in 1..Len(srcs) |-> SourceCard(srcs[i], i)]

(***************************************************************************)
(* Displayed elements.  cls is "welcome", "typing", "user" or "bot"; q is  *)
(* the number of the query a turn belongs to (0 for the other elements).   *)
(***************************************************************************)
WelcomeDiv == [cls |-> "welcome", content |-> <<>>, sources |-> <<>>, q |-> 0]
TypingDiv == [cls |-> "typing", content |-> <<>>, sources |-> <<>>, q |-> 0]

RECURSIVE removeFirst(_, _)
removeFirst(dom, c) ==
    IF Len(dom) = 0 THEN <<>>
    ELSE IF Head(dom).cls = c THEN Tail(dom)
    ELSE <<Head(dom)>> \o removeFirst(Tail(dom), c)

\* addMessage that renders the assistant's messages only
addMessage_botOnly(dom, content, type, hasSources, sources, q) ==
    IF type = "user" THEN dom
    ELSE Append(removeFirst(dom, "welcome"),
                [cls |-> type, content |-> content,
                 sources |-> IF hasSources /\ Len(sources) > 0 THEN sourceItems(sources)
                             ELSE <<>>,
                 q |-> q])

\* app.js addMessage(content, type, sources = null)
addMessage(dom, content, type, hasSources, sources, q) ==
    Append(removeFirst(dom, "welcome"),
           [cls |-> type, content |-> content,
            sources |-> IF hasSources /\ Len(sources) > 0 THEN sourceItems(sources) ELSE <<>>,
            q |-> q])

showTypingIndicator(dom) == Append(dom, TypingDiv)

\* removeTypingIndicator that leaves the indicator in place
removeTypingIndicator_leavesIt(dom) == dom

\* app.js removeTypingIndicator (lines 270-275)
removeTypingIndicator(dom) == removeFirst(dom, "typing")

IsTurn(e) == e.cls \in {"user", "bot"}
Turns == SelectSeq(messages, IsTurn)

\* React: {chatMutation.isPending && <TypingIndicator />} inside the non-empty branch
TypingShown ==
    IF ui = "app" THEN \E i \in 1..Len(messages) : messages[i].cls = "typing"
    ELSE isPending /\ Len(messages) > 0

(***************************************************************************)
(* The dashboard of the app.js page.  A widget shows the placeholder of    *)
(* the page, the snapshot a fetch returned (the data of fetch n, or "No    *)
(* new alerts" for an empty list) or an error text.  A fetch is known by   *)
(* its widget and the number of the refresh round that issued it.          *)
(***************************************************************************)
Placeholder == [kind |-> "placeholder", n |-> 0]
Snapshot(kind, n) == [kind |-> kind, n |-> n]
ErrorLoadingAlerts == [kind |-> "error", n |-> 0]

Fetch(w, n, startup) == [w |-> w, n |-> n, startup |-> startup]

\* a round of loadStats() and loadAlerts() calls, up to their await of fetch
issueRound(startup) ==
    /\ issued' = issued + 1
    /\ polls' = polls \cup {Fetch("stats", issued + 1, startup),
                            Fetch("alerts", issued + 1, startup)}

StatsOutcomes == {"data", "fail"}
AlertsOutcomes == {"data", "empty", "fail"}

(***************************************************************************)
(* Events.                                                                 *)
(***************************************************************************)
NoOutcome == [net |-> "none", status |-> "none", body |-> "none", response |-> <<>>,
              hasSources |-> FALSE, sources |-> <<>>, session_id |-> Undefined]

Event(op, input, q, out, accepted) ==
    [op |-> op, input |-> input, q |-> q, out |-> out, accepted |-> accepted,
     busy |-> pending # {},
     answered |-> \E i \in 1..Len(messages) : messages[i].cls = "bot",
     stale |-> \E f \in pending : f.q = q /\ f.epoch < epoch]

\* The page as loaded.  app.js starts with sessionId = null and the welcome
\* message that clearChat restores; the React component draws its session id
\* once, when it mounts, and shows no message.
PageLoad ==
    /\ ui \in {"app", "react"}
    /\ sessionId \in (IF ui = "app" THEN {Null} ELSE {generateSessionId(0, r) : r \in Rnd})
    /\ messages = (IF ui = "app" THEN <<WelcomeDiv>> ELSE <<>>)
    /\ pending = {}
    /\ isPending = FALSE
    /\ initPc = (IF ui = "app" THEN "health" ELSE "none")
    /\ now = 0
    /\ drawn = (IF ui = "app" THEN {} ELSE {sessionId.r})
    /\ nextQ = 0
    /\ epoch = 0
    /\ payerFilter = (IF ui = "app" THEN JsString("") ELSE JsUndefined)
    /\ ruleTypeFilter = (IF ui = "app" THEN JsString("") ELSE JsUndefined)
    /\ statsGrid = Placeholder
    /\ alertsList = Placeholder
    /\ polls = {}
    /\ issued = 0
    /\ console = {}
    /\ ev = [op |-> "load", input |-> <<>>, q |-> 0, out |-> NoOutcome, accepted |-> FALSE,
             busy |-> FALSE, answered |-> FALSE, stale |-> FALSE]

Init == PageLoad /\ sourceList = <<>> /\ cards = <<>>

\* what the filter falls back to: payerFilter || null in app.js,
\* payerFilter || undefined in ChatInterface.tsx
NoFilter == IF ui = "app" THEN JsNull ELSE JsUndefined

\* The body of the request put on the network for query q: app.js lines
\* 186-192 (JSON.stringify), ChatInterface.tsx lines 42-48 (axios).
Request(q) ==
    [q |-> q, session_id |-> sessionId, epoch |-> epoch,
     payer_name |-> stringify(JsOr(payerFilter, NoFilter)),
     rule_type |-> stringify(JsOr(ruleTypeFilter, NoFilter)),
     include_sources |-> TRUE]

Tick ==
    /\ now < MaxNow
    /\ now' = now + 1
    /\ drawn' = {}
    /\ ev' = Event("tick", <<>>, 0, NoOutcome, FALSE)
    /\ UNCHANGED <<ui, rendering, filters, dashboard, sessionId, messages, pending, isPending, initPc, nextQ, epoch>>

(***************************************************************************)
(* What the network can bring back for a chat request f.  A reply has a    *)
(* status and a body; a body that parses to an object may or may not hold  *)
(* the response text, a source list and a session id.                      *)
(***************************************************************************)
ErrorBody == [NoOutcome EXCEPT !.net = "reply", !.status = "non2xx", !.body = "object",
                               !.response = UndefinedText]

\* A reply outside 2xx carries an error page or an error object such as
\* {detail: ...}; a 2xx reply carries anything.
Outcomes(f) ==
    {[NoOutcome EXCEPT !.net = "reject"], ErrorBody}
    \cup {[NoOutcome EXCEPT !.net = "reply", !.status = "non2xx", !.body = "notJson"]}
    \cup {[NoOutcome EXCEPT !.net = "reply", !.status = "2xx", !.body = b] :
             b \in {"notJson", "null"}}
    \cup {[net |-> "reply", status |-> "2xx", body |-> "object", response |-> txt,
           hasSources |-> src[1], sources |-> src[2], session_id |-> sid] :
             txt \in {AnswerText, UndefinedText},
             src \in {<<FALSE, <<>> >>, <<TRUE, SampleSources>>},
             sid \in {Undefined, EmptyString, f.session_id} \cup ServerIds}

(***************************************************************************)
(* app.js                                                                  *)
(***************************************************************************)
\* sendMessage, up to the await of fetch (lines 161-193)
sendMessage(s) ==
    /\ ui = "app"
    /\ LET query == trim(s) IN
       IF Len(query) = 0
       THEN /\ ev' = Event("submit", s, 0, NoOutcome, FALSE)
            /\ UNCHANGED <<sessionId, messages, pending, nextQ>>
       ELSE /\ nextQ < MaxQueries
            /\ messages' = showTypingIndicator(
                               addMessage(messages, query, "user", FALSE, <<>>, nextQ + 1))
            /\ pending' = pending \cup {Request(nextQ + 1)}
            /\ nextQ' = nextQ + 1
            /\ ev' = Event("submit", s, nextQ + 1, NoOutcome, TRUE)
            /\ UNCHANGED sessionId
    /\ UNCHANGED <<ui, rendering, filters, dashboard, isPending, initPc, now, drawn, epoch>>

\* the catch block of sendMessage (lines 208-212)
sendMessageCatch(dom, f) ==
    addMessage(removeTypingIndicator(dom), Apology, "bot", FALSE, <<>>, f.q)

\* does the try block of sendMessage throw for this outcome, and where
ThrowsBeforeRender(o) == o.net = "reject" \/ o.body = "notJson"
ThrowsAtRender(o) == o.net = "reply" /\ o.body = "null"

\* the displayed elements after sendMessage resumes with outcome o (lines 195-212)
sendMessageDom(dom, f, o) ==
    IF ThrowsBeforeRender(o) THEN sendMessageCatch(dom, f)
    ELSE IF ThrowsAtRender(o) THEN sendMessageCatch(removeTypingIndicator(dom), f)
    ELSE addMessage(removeTypingIndicator(dom), o.response, "bot",
                    o.hasSources, o.sources, f.q)

\* the session id after sendMessage resumes with outcome o (lines 203-206)
sendMessageSession(sid, o) ==
    IF ~ThrowsBeforeRender(o) /\ ~ThrowsAtRender(o) /\ Truthy(o.session_id)
    THEN o.session_id ELSE sid

\* sendMessage, from the await of fetch to its end
sendMessageResume(f, o) ==
    /\ ui = "app"
    /\ f \in pending
    /\ messages' = sendMessageDom(messages, f, o)
    /\ sessionId' = sendMessageSession(sessionId, o)
    /\ pending' = pending \ {f}
    /\ ev' = Event("response", <<>>, f.q, o, TRUE)
    /\ UNCHANGED <<ui, rendering, filters, dashboard, isPending, initPc, now, drawn, nextQ, epoch>>

\* clearChat that restores the welcome message and keeps the session id
clearChat_keepsSession(r) ==
    /\ ui = "app"
    /\ epoch < MaxClears
    /\ messages' = <<WelcomeDiv>>
    /\ epoch' = epoch + 1
    /\ ev' = Event("clear", <<>>, 0, NoOutcome, TRUE)
    /\ UNCHANGED <<ui, rendering, filters, dashboard, sessionId, pending, isPending, initPc, now, drawn, nextQ>>

\* clearChat (lines 277-292)
clearChat(r) ==
    /\ ui = "app"
    /\ epoch < MaxClears
    /\ messages' = <<WelcomeDiv>>
    /\ sessionId' = generateSessionId(now, r)
    /\ drawn' = drawn \cup {r}
    /\ epoch' = epoch + 1
    /\ ev' = Event("clear", <<>>, 0, NoOutcome, TRUE)
    /\ UNCHANGED <<ui, rendering, filters, dashboard, pending, isPending, initPc, now, nextQ>>

\* initializeApp: await checkHealth() settles (lines 15-17, 29-32)
checkHealthSettled(ok) ==
    /\ ui = "app"
    /\ initPc = "health"
    /\ initPc' = (IF ok THEN "loading" ELSE "failed")
    /\ IF ok THEN issueRound(TRUE) ELSE UNCHANGED <<polls, issued>>
    /\ ev' = Event("health", <<>>, 0, NoOutcome, ok)
    /\ UNCHANGED <<ui, rendering, filters, statsGrid, alertsList, console, sessionId, messages, pending,
                   isPending, now, drawn, nextQ, epoch>>

\* initializeApp: await Promise.all([...]) settles (lines 20-27)
initialDataLoaded(r) ==
    /\ ui = "app"
    /\ initPc = "loading"
    /\ \A f \in polls : ~f.startup
    /\ initPc' = "done"
    /\ sessionId' = generateSessionId(now, r)
    /\ drawn' = drawn \cup {r}
    /\ ev' = Event("loaded", <<>>, 0, NoOutcome, TRUE)
    /\ UNCHANGED <<ui, rendering, filters, dashboard, messages, pending, isPending, now, nextQ, epoch>>

\* the refresh timer fires: setInterval(() => { loadStats(); loadAlerts(); }, 30000)
pollTick ==
    /\ ui = "app"
    /\ issued < MaxPolls
    /\ issueRound(FALSE)
    /\ ev' = Event("poll", <<>>, issued + 1, NoOutcome, TRUE)
    /\ UNCHANGED <<ui, rendering, filters, statsGrid, alertsList, console, sessionId, messages, pending,
                   isPending, initPc, now, drawn, nextQ, epoch>>

\* loadStats, from the await of fetch to its end (lines 80-100)
loadStatsSettled(f, o) ==
    /\ ui = "app"
    /\ f \in polls /\ f.w = "stats"
    /\ statsGrid' = (IF o = "data" THEN Snapshot("data", f.n) ELSE statsGrid)
    /\ console' = (IF o = "fail" THEN console \cup {"Error loading stats:"} ELSE console)
    /\ polls' = polls \ {f}
    /\ ev' = Event("stats", <<>>, f.n, NoOutcome, o # "fail")
    /\ UNCHANGED <<ui, rendering, filters, alertsList, issued, sessionId, messages, pending, isPending,
                   initPc, now, drawn, nextQ, epoch>>

\* loadAlerts, from the await of fetch to its end (lines 137-157)
loadAlertsSettled(f, o) ==
    /\ ui = "app"
    /\ f \in polls /\ f.w = "alerts"
    /\ alertsList' = (IF o = "data" THEN Snapshot("data", f.n)
                      ELSE IF o = "empty" THEN Snapshot("none", f.n)
                      ELSE ErrorLoadingAlerts)
    /\ console' = (IF o = "fail" THEN console \cup {"Error loading alerts:"} ELSE console)
    /\ polls' = polls \ {f}
    /\ ev' = Event("alerts", <<>>, f.n, NoOutcome, o # "fail")
    /\ UNCHANGED <<ui, rendering, filters, statsGrid, issued, sessionId, messages, pending, isPending,
                   initPc, now, drawn, nextQ, epoch>>

\* the user picks an option of the #payerFilter select; the payer options
\* exist once loadPayers has filled the select (lines 126-127)
selectPayer(v) ==
    /\ ui = "app"
    /\ v # "" => initPc \in {"loading", "done"}
    /\ payerFilter' = JsString(v)
    /\ ev' = Event("filter", <<v>>, 0, NoOutcome, TRUE)
    /\ UNCHANGED <<ui, rendering, dashboard, sessionId, messages, pending, isPending, initPc, now,
                   drawn, nextQ, epoch, ruleTypeFilter>>

\* the user picks an option of the #ruleTypeFilter select
selectRuleType(v) ==
    /\ ui = "app"
    /\ ruleTypeFilter' = JsString(v)
    /\ ev' = Event("filter", <<v>>, 0, NoOutcome, TRUE)
    /\ UNCHANGED <<ui, rendering, dashboard, sessionId, messages, pending, isPending, initPc, now,
                   drawn, nextQ, epoch, payerFilter>>

\* filterByPayer(payerName), the onclick of a payer of the side bar (lines 294-300)
filterByPayer(payerName) ==
    /\ ui = "app"
    /\ initPc \in {"loading", "done"}
    /\ payerFilter' = JsString(payerName)
    /\ ev' = Event("filter", <<payerName>>, 0, NoOutcome, TRUE)
    /\ UNCHANGED <<ui, rendering, dashboard, sessionId, messages, pending, isPending, initPc, now,
                   drawn, nextQ, epoch, ruleTypeFilter>>

(***************************************************************************)
(* React                                                                   *)
(***************************************************************************)
\* ChatInterface.handleSend followed by chatMutation.mutate (lines 40-50, 77-88)
handleSend(message, op, raw) ==
    /\ nextQ < MaxQueries
    /\ messages' = Append(messages, [cls |-> "user", content |-> message,
                                     sources |-> <<>>, q |-> nextQ + 1])
    /\ pending' = pending \cup {Request(nextQ + 1)}
    /\ isPending' = TRUE
    /\ nextQ' = nextQ + 1
    /\ ev' = Event(op, raw, nextQ + 1, NoOutcome, TRUE)
    /\ UNCHANGED <<ui, rendering, filters, dashboard, sessionId, initPc, now, drawn, epoch>>

\* InputBar.handleSubmit: if (input.trim() && !isLoading && !disabled)
CanSubmit(s) == Len(trim(s)) > 0 /\ ~isPending

handleSubmit(s) ==
    /\ ui = "react"
    /\ IF CanSubmit(s)
       THEN handleSend(trim(s), "submit", s)
       ELSE /\ ev' = Event("submit", s, 0, NoOutcome, FALSE)
            /\ UNCHANGED <<ui, rendering, filters, dashboard, sessionId, messages, pending, isPending, initPc,
                           now, drawn, nextQ, epoch>>

\* the example buttons, rendered while messages.length === 0 (lines 118-147)
exampleClick(e) ==
    /\ ui = "react"
    /\ Len(messages) = 0
    /\ handleSend(e, "example", e)

\* axios rejects on a network error and on a status outside 2xx
queryRejects(o) == o.net = "reject" \/ o.status = "non2xx"

\* chatMutation.onSuccess / onError (lines 51-74)
mutationMessage(f, o) ==
    IF queryRejects(o)
    THEN [cls |-> "bot", content |-> Apology, sources |-> <<>>, q |-> f.q]
    ELSE [cls |-> "bot",
          content |-> IF o.body = "object" THEN o.response ELSE UndefinedText,
          sources |-> IF o.body = "object" /\ o.hasSources THEN o.sources ELSE <<>>,
          q |-> f.q]

\* the mutation of request f settles with outcome o.  A 2xx reply whose body
\* is the JSON value null makes the render of the new message throw; what the
\* page shows then is not modelled.
mutationSettled(f, o) ==
    /\ ui = "react"
    /\ f \in pending
    /\ ~(o.status = "2xx" /\ o.body = "null")
    /\ messages' = Append(messages, mutationMessage(f, o))
    /\ pending' = pending \ {f}
    /\ isPending' = (\E g \in pending : g.q > f.q)
    /\ ev' = Event("response", <<>>, f.q, o, TRUE)
    /\ UNCHANGED <<ui, rendering, filters, dashboard, sessionId, initPc, now, drawn, nextQ, epoch>>

Next ==
    \/ Tick
    \/ \E s \in Inputs : sendMessage(s)
    \/ \E f \in pending : \E o \in Outcomes(f) : sendMessageResume(f, o)
    \/ \E r \in FreshRnd : clearChat(r)
    \/ \E ok \in BOOLEAN : checkHealthSettled(ok)
    \/ \E f \in polls : loadStatsSettled(f, "data")
    \/ \E f \in polls : loadAlertsSettled(f, "data")
    \/ \E r \in FreshRnd : initialDataLoaded(r)
    \/ \E s \in Inputs : handleSubmit(s)
    \/ \E e \in Examples : exampleClick(e)
    \/ \E f \in pending : \E o \in Outcomes(f) : mutationSettled(f, o)

Spec == Init /\ [][Next]_vars

(***************************************************************************)
(* The conversation under the assumption that every network call           *)
(* eventually resolves or rejects: the continuation of each chat request   *)
(* that is on the network eventually runs.  The steps are those of Next    *)
(* at one instant of the clock, with one blank and one non-blank text      *)
(* typed and one outcome of each kind the continuations tell apart.        *)
(***************************************************************************)
LiveInputs == {<<" ">>, <<"a">>}

LiveOutcomes(f) ==
    {o \in Outcomes(f) :
        /\ o.response = (IF o.body = "object" THEN AnswerText ELSE <<>>)
        /\ ~o.hasSources
        /\ o.session_id \in {Undefined} \cup ServerIds}

settles(q) ==
    \E f \in pending : \E o \in LiveOutcomes(f) :
        f.q = q /\ (sendMessageResume(f, o) \/ mutationSettled(f, o))

LiveNext ==
    \/ \E s \in LiveInputs : sendMessage(s)
    \/ \E f \in pending : \E o \in LiveOutcomes(f) : sendMessageResume(f, o)
    \/ \E r \in FreshRnd : clearChat(r)
    \/ \E ok \in BOOLEAN : checkHealthSettled(ok)
    \/ \E f \in polls : loadStatsSettled(f, "data")
    \/ \E f \in polls : loadAlertsSettled(f, "data")
    \/ \E r \in FreshRnd : initialDataLoaded(r)
    \/ \E s \in LiveInputs : handleSubmit(s)
    \/ \E e \in Examples : exampleClick(e)
    \/ \E f \in pending : \E o \in LiveOutcomes(f) : mutationSettled(f, o)

(***************************************************************************)
(* The conversation with the filters of the app.js page being changed.     *)
(* ChatInterface is mounted without props (App.tsx), so the filters of the *)
(* React page stay undefined.                                              *)
(***************************************************************************)
FilterNext ==
    \/ LiveNext
    \/ \E v \in PayerNames \cup {""} : selectPayer(v)
    \/ \E v \in RuleTypes \cup {""} : selectRuleType(v)
    \/ \E payerName \in PayerNames : filterByPayer(payerName)

FilterSpec == Init /\ [][FilterNext]_vars

(***************************************************************************)
(* The rendering of a source list: the page holds an answer with any list  *)
(* of sources and shows its entries.                                       *)
(***************************************************************************)
\* if (sources && sources.length > 0): app.js line 230, MessageBubble.tsx line 75
renderSources ==
    /\ Len(sourceList) > 0
    /\ cards = <<>>
    /\ cards' = (IF ui = "app" THEN sourceItems(sourceList) ELSE SourceCards(sourceList))
    /\ ev' = Event("render", <<>>, 0, NoOutcome, TRUE)
    /\ UNCHANGED <<ui, sourceList, filters, dashboard, sessionId, messages, pending,
                   isPending, initPc, now, drawn, nextQ, epoch>>

RenderInit == PageLoad /\ sourceList \in SourceLists /\ cards = <<>>

RenderSpec == RenderInit /\ [][renderSources]_vars

(***************************************************************************)
(* The dashboard of the app.js page: the start-up load and the refresh     *)
(* timer, with every outcome of a fetch.                                   *)
(***************************************************************************)
PollInit == Init /\ ui = "app"

PollNext ==
    \/ pollTick
    \/ \E ok \in BOOLEAN : checkHealthSettled(ok)
    \/ \E f \in polls : \E o \in StatsOutcomes : loadStatsSettled(f, o)
    \/ \E f \in polls : \E o \in AlertsOutcomes : loadAlertsSettled(f, o)
    \/ \E r \in FreshRnd : initialDataLoaded(r)

PollSpec == PollInit /\ [][PollNext]_vars

LiveSpec ==
    Init /\ [][LiveNext]_vars /\ \A q \in 1..MaxQueries : WF_vars(settles(q))

(***************************************************************************)
(* Vocabulary of the properties.                                           *)
(***************************************************************************)
\* empty or whitespace-only text
AllSpaces(s) == \A i \in 1..Len(s) : s[i] = " "

IsSubmit(e) == e.op \in {"submit", "example"}
IsResponse(e) == e.op = "response"

UserPositions(T) == {i \in 1..Len(T) : T[i].cls = "user"}
BotPositions(T) == {i \in 1..Len(T) : T[i].cls = "bot"}

IsApologyTurn(t, q) == t = [cls |-> "bot", content |-> Apology, sources |-> <<>>, q |-> q]

\* a reply that is not a well-formed answer: bad status, or no response text
BadReply(o) ==
    /\ o.net = "reply"
    /\ \/ o.status = "non2xx"
       \/ o.body # "object"
       \/ o.response # AnswerText

\* a successful response: 2xx status and a body with the response text
GoodReply(o) == o.net = "reply" /\ ~BadReply(o)

\* the session id rule of the specification
adoptSessionId(current, serverProvided) ==
    IF serverProvided.kind \in {"session", "server"} THEN serverProvided ELSE current

\* exactly one turn was appended by the step, and it satisfies nothing else
AppendedOne == Len(Turns') = Len(Turns) + 1 /\ SubSeq(Turns', 1, Len(Turns)) = Turns

(***************************************************************************)
(* C1: at most one chat query request is in flight at any time, whichever  *)
(* entry point submits.                                                    *)
(***************************************************************************)
C1_AtMostOneInFlight == Cardinality(pending) <= 1

(***************************************************************************)
(* C2: every assistant turn answers a user turn displayed before it, no    *)
(* query is answered twice, and the displayed assistant turns never        *)
(* outnumber the displayed user turns.                                     *)
(***************************************************************************)
C2_OneAnswerPerUserTurn ==
    /\ \A i \in BotPositions(Turns) :
          \E j \in UserPositions(Turns) : j < i /\ Turns[j].q = Turns[i].q
    /\ \A i, j \in BotPositions(Turns) : Turns[i].q = Turns[j].q => i = j
    /\ Cardinality(BotPositions(Turns)) <= Cardinality(UserPositions(Turns))

(***************************************************************************)
(* C3: between the user turns of two consecutive queries N and N+1 stands  *)
(* the assistant turn of query N.                                          *)
(***************************************************************************)
C3_AnswerBeforeNextQuery ==
    \A i, j \in UserPositions(Turns) :
        (i < j /\ Turns[j].q = Turns[i].q + 1) =>
            \E k \in BotPositions(Turns) : i < k /\ k < j /\ Turns[k].q = Turns[i].q

(***************************************************************************)
(* C4: the response of a request that was sent before the last clear is    *)
(* discarded: it appends no turn and leaves the session id alone.          *)
(***************************************************************************)
C4_StaleResponseDiscarded ==
    [][(IsResponse(ev') /\ ev'.stale) => (Turns' = Turns /\ sessionId' = sessionId)]_vars

(***************************************************************************)
(* C5: after a successful response is processed the session id is the      *)
(* response's session_id when that is present and non-empty, and the id    *)
(* held before otherwise.                                                  *)
(***************************************************************************)
C5_SessionAdopted ==
    [][(IsResponse(ev') /\ GoodReply(ev'.out)) =>
          sessionId' = adoptSessionId(sessionId, ev'.out.session_id)]_vars

(***************************************************************************)
(* C6 as stated: a submit of text that is not blank appends exactly one    *)
(* user turn in the same step, in any conversation state.                  *)
(***************************************************************************)
C6_SubmitAlwaysAppends ==
    [][(IsSubmit(ev') /\ ~AllSpaces(ev'.input)) =>
          (AppendedOne /\ Turns'[Len(Turns')].cls = "user")]_vars

(***************************************************************************)
(* C6 amended: a submit of text that is not blank appends exactly one user *)
(* turn in the same step whenever it is accepted, which is always in       *)
(* app.js and, in the React input bar, when no request is pending; a React *)
(* submit made while a request is pending appends nothing and sends        *)
(* nothing.                                                                *)
(***************************************************************************)
C6_AcceptedSubmitAppends ==
    [][(IsSubmit(ev') /\ ~AllSpaces(ev'.input)) =>
          IF ui = "app" \/ ~isPending
          THEN /\ AppendedOne
               /\ Turns'[Len(Turns')].cls = "user"
               /\ Cardinality(pending') = Cardinality(pending) + 1
          ELSE Turns' = Turns /\ pending' = pending]_vars

C6_Witness ==
    /\ ev.op = "submit" /\ ev.accepted /\ ev.answered
    /\ ~AllSpaces(ev.input)
    /\ Turns[Len(Turns)].cls = "user"

(***************************************************************************)
(* C7: a submit of empty or whitespace-only text changes nothing: no turn, *)
(* no request, same session id, no pending or typing state.                *)
(***************************************************************************)
C7_BlankSubmitNoEffect ==
    [][(ev'.op = "submit" /\ AllSpaces(ev'.input)) =>
          UNCHANGED <<messages, pending, sessionId, isPending, nextQ>>]_vars

C7_Witness ==
    /\ ev.op = "submit" /\ ~ev.accepted
    /\ Len(ev.input) > 0 /\ AllSpaces(ev.input)
    /\ ~ev.busy /\ ev.answered

(***************************************************************************)
(* C8: when the network call rejects, exactly one assistant turn with the  *)
(* apology text and no sources is appended, the session id is unchanged    *)
(* and the conversation is idle again: nothing pending, no typing          *)
(* indicator.                                                              *)
(***************************************************************************)
C8_RejectYieldsApologyAndIdle ==
    [][(IsResponse(ev') /\ ev'.out.net = "reject") =>
          /\ AppendedOne
          /\ IsApologyTurn(Turns'[Len(Turns')], ev'.q)
          /\ sessionId' = sessionId
          /\ pending' = {}
          /\ ~TypingShown']_vars

(***************************************************************************)
(* C9: a reply with a status outside 2xx, and a reply whose body has not   *)
(* the expected shape, yield the apology turn without sources, as a        *)
(* network failure does.                                                   *)
(***************************************************************************)
C9_BadReplyYieldsApology ==
    [][(IsResponse(ev') /\ BadReply(ev'.out)) =>
          (AppendedOne /\ IsApologyTurn(Turns'[Len(Turns')], ev'.q))]_vars

C17_SessionChangesOnlyByAdoption ==
    [][(Truthy(sessionId) /\ sessionId' # sessionId /\ ev'.op # "clear") =>
          (IsResponse(ev') /\ sessionId' = ev'.out.session_id)]_vars

(***************************************************************************)
(* C18: every dispatched chat request carries a session id that is not     *)
(* null.                                                                   *)
(***************************************************************************)
C18_RequestsCarrySessionId == \A f \in pending : Truthy(f.session_id)

(***************************************************************************)
(* C19: when every network call resolves or rejects, every accepted submit *)
(* is eventually followed by the append of the assistant turn of its       *)
(* query, the conversation eventually returns to idle (no request pending, *)
(* no typing indicator), and an idle conversation accepts a submit.        *)
(***************************************************************************)
OnNetwork(q) == \E f \in pending : f.q = q

AssistantTurnAppended(q) ==
    /\ IsResponse(ev) /\ ev.q = q
    /\ Len(messages) > 0
    /\ messages[Len(messages)].cls = "bot"
    /\ messages[Len(messages)].q = q

Idle == pending = {} /\ ~TypingShown

AcceptsSubmit == ui = "react" => CanSubmit(<<"a">>)

Unset(x) == x.kind # "string" \/ x.v = ""

SentAs(x, field) ==
    IF Unset(x) THEN field.kind \in {"null", "absent"}
    ELSE field.kind = "string" /\ field.v = x.v

C15_RequestFields ==
    [][/\ (IsSubmit(ev') /\ ev'.accepted) =>
             \E f \in pending' \ pending :
                 /\ f.q = ev'.q
                 /\ f.include_sources = TRUE
                 /\ SentAs(payerFilter, f.payer_name)
                 /\ SentAs(ruleTypeFilter, f.rule_type)
       /\ \A f \in pending' : f.include_sources = TRUE
       /\ \A f \in pending : \A g \in pending' : g.q = f.q => g = f]_vars

C15_Witness ==
    \E f \in pending :
        /\ f.payer_name = JsString("Aetna")
        /\ f.rule_type.kind = "null"
        /\ payerFilter = JsString("")
        /\ ruleTypeFilter = JsString("timely_filing")

(***************************************************************************)
(* C16: when a /stats or /alerts fetch of the dashboard fails, both        *)
(* widgets keep showing what they showed before (no error text appears)    *)
(* and the failure is written to the console.                              *)
(***************************************************************************)
IsPollResult(e) == e.op \in {"stats", "alerts"}

C16_FailedPollKeepsSnapshot ==
    [][(IsPollResult(ev') /\ ~ev'.accepted) =>
          /\ statsGrid' = statsGrid
          /\ alertsList' = alertsList
          /\ console' # {}]_vars

(***************************************************************************)
(* C20: a fetch that completes never replaces the snapshot of a fetch of   *)
(* the same widget that was issued after it; so once no fetch of a widget  *)
(* is on the network the widget does not show an older snapshot than one   *)
(* it showed before.                                                       *)
(***************************************************************************)
IsSnapshot(x) == x.kind \in {"data", "none"}

NotOverwrittenByOlder(old, new, n) ==
    (IsSnapshot(old) /\ old.n > n) => new = old

C20_OlderFetchNeverOverwrites ==
    [][/\ ev'.op = "stats" => NotOverwrittenByOlder(statsGrid, statsGrid', ev'.q)
       /\ ev'.op = "alerts" => NotOverwrittenByOlder(alertsList, alertsList', ev'.q)]_vars

(***************************************************************************)
(* C11: the source entries are shown in non-increasing order of display    *)
(* score, and entries of equal display score in the order in which the     *)
(* query service returned them.                                            *)
(***************************************************************************)
C11_SourcesSortedByScore ==
    \A i \in 1..Len(cards) : \A j \in 1..Len(cards) :
        i < j => \/ cards[i].score > cards[j].score
                 \/ (cards[i].score = cards[j].score /\ cards[i].index < cards[j].index)

(***************************************************************************)
(* C12: the percentage shown for a source is the one of its combined_score *)
(* when that field is present (0 included), else of its similarity_score   *)
(* when present, else of 0.                                                *)
(***************************************************************************)
DisplayScore(source) ==
    IF source.combined_score # <<>> THEN source.combined_score[1]
    ELSE IF source.similarity_score # <<>> THEN source.similarity_score[1]
    ELSE 0

\* p is the whole percentage nearest to the score (in thousandths)
IsPercentOf(p, score) == 10 * p - score \in -5..5

C12_DisplayScoreFallback ==
    \A i \in 1..Len(cards) :
        IsPercentOf(cards[i].pct, DisplayScore(sourceList[cards[i].index]))

(***************************************************************************)
(* C13: whatever the raw scores, every shown display score lies in [0,1]   *)
(* and every shown match percentage between 0 and 100.                     *)
(***************************************************************************)
C13_PercentageWithinRange ==
    \A i \in 1..Len(cards) :
        cards[i].score \in 0..1000 /\ cards[i].pct \in 0..100

(***************************************************************************)
(* C14: a source card shows the percentage p = round(score * 100) and is   *)
(* in the high band (green) exactly when p >= 80, in the medium band       *)
(* (yellow) exactly when 60 <= p <= 79 and in the low band (gray) exactly  *)
(* when p < 60; a combined_score of 0.92 is shown as 92% in the high band. *)
(* The bands are those of SourceCard.tsx; the entries of the app.js page   *)
(* carry no band.                                                          *)
(***************************************************************************)
C14_Bands ==
    ui = "react" =>
        \A i \in 1..Len(cards) :
            LET p == cards[i].pct IN
            /\ IsPercentOf(p, cards[i].score)
            /\ cards[i].band = "green" <=> p >= 80
            /\ cards[i].band = "yellow" <=> (60 <= p /\ p <= 79)
            /\ cards[i].band = "gray" <=> p < 60
            /\ sourceList[i].combined_score = <<920>> =>
                   (p = 92 /\ cards[i].band = "green")

C14_Witness ==
    /\ ui = "react"
    /\ Len(cards) = 2
    /\ sourceList[1].combined_score = <<920>> /\ cards[1].band = "green"
    /\ cards[2].pct = 80 /\ cards[2].band = "green"

====
